---- MODULE Spec2Model ----
(***************************************************************************)
(* Model of the Nonogram solver of src/Nonogram.py (class Nono_Solver):    *)
(* the line possibility generator, the row/column domains, the constraint  *)
(* propagation of _update_domains and the recursive backtracking search of *)
(* solve.  The recursion of solve is an explicit stack of frames.          *)
(*                                                                         *)
(* Python indexes from 0; rows, columns and line positions are indexed     *)
(* from 1 here.  Block start positions inside the generator stay 0-based,  *)
(* as in the source.  A Line Assignment is a tuple of 0 (Empty) and 1      *)
(* (Filled); an Unknown grid cell is None.                                 *)
(***************************************************************************)
EXTENDS Integers, Sequences, FiniteSets, TLC

VARIABLES row_constraints, col_constraints, grid, row_domains, col_domains,
          stack, ret, last, blocks, length, lines, gen_pc

vars == <<row_constraints, col_constraints, grid, row_domains, col_domains,
          stack, ret, last, blocks, length, lines, gen_pc>>

solver_vars == <<row_constraints, col_constraints, grid, row_domains,
                 col_domains, stack, ret, last>>

gen_vars == <<blocks, length, lines, gen_pc>>

(* ----------------------------- bounds ---------------------------------- *)

\* largest number of rows and of columns of the puzzles explored
MaxH == 2
MaxW == 3
\* the block lengths of all row clues together, and of all column clues
\* together, sum to at most this
MaxFilled == 3
\* the second family of puzzles: exactly HardH rows and HardW columns, every
\* clue non-empty with blocks summing to at most HardClueSum
HardH == 3
HardW == 4
HardClueSum == 2
\* the inputs handed to the line generator on its own: lengths 0..MaxLength
\* and every clue with blocks summing to at most MaxGenSum
MaxLength == 5
MaxGenSum == 5

(* ----------------------------- values ---------------------------------- *)

\* grid cells start as None (Unknown), src/Nonogram.py line 16
None == -1

NoRet == [value |-> FALSE, line |-> 0]

NoLast == [called |-> FALSE]

(* ------------------------ sequences of integers ------------------------ *)

RECURSIVE sum(_)
sum(s) == IF s = << >> THEN 0 ELSE Head(s) + sum(Tail(s))

\* every sequence of positive integers whose sum is exactly n
RECURSIVE Compositions(_)
Compositions(n) ==
    IF n = 0 THEN { << >> }
    ELSE UNION { { <<b>> \o c : c \in Compositions(n - b) } : b \in 1..n }

\* every clue with sum of blocks at most n (the empty clue included)
CluesUpTo(n) == UNION { Compositions(m) : m \in 0..n }

(* --------------------- Line Possibility Generator ---------------------- *)

\* line 62-66: the line painted from the placed blocks (start, block)
LineOf(pos_list, len) ==
    [c \in 1..len |->
        IF \E n \in 1..Len(pos_list) :
              /\ pos_list[n][1] + 1 <= c
              /\ c <= pos_list[n][1] + pos_list[n][2]
        THEN 1 ELSE 0]

RECURSIVE generate_positions(_, _, _, _)
RECURSIVE place_loop(_, _, _, _, _)
RECURSIVE place_loop_no_gap(_, _, _, _, _)

\* place_loop with the fault of recursing from start + block, which leaves no
\* Empty cell between a block and the next
place_loop_no_gap(start, max_start, current_blocks, pos_list, len) ==
    IF start <= max_start
    THEN LET block == Head(current_blocks)
             here == IF \A n \in 1..Len(pos_list) :
                           pos_list[n][1] + pos_list[n][2] <= start
                     THEN generate_positions(start + block,
                                             Tail(current_blocks),
                                             Append(pos_list, <<start, block>>),
                                             len)
                     ELSE << >>
         IN  here \o place_loop_no_gap(start + 1, max_start, current_blocks,
                                       pos_list, len)
    ELSE << >>

\* lines 74-79: the while loop over the start positions of the first block
place_loop(start, max_start, current_blocks, pos_list, len) ==
    IF start <= max_start
    THEN LET block == Head(current_blocks)
             here == IF \A n \in 1..Len(pos_list) :
                           pos_list[n][1] + pos_list[n][2] <= start
                     THEN generate_positions(start + block + 1,
                                             Tail(current_blocks),
                                             Append(pos_list, <<start, block>>),
                                             len)
                     ELSE << >>
         IN  here \o place_loop(start + 1, max_start, current_blocks,
                                pos_list, len)
    ELSE << >>

\* generate_positions with the fault of counting one gap per block in
\* max_start, which loses the rightmost placement
generate_positions_short(pos, current_blocks, pos_list, len) ==
    IF current_blocks = << >>
    THEN << LineOf(pos_list, len) >>
    ELSE place_loop(pos,
                    len - sum(current_blocks) - Len(current_blocks),
                    current_blocks, pos_list, len)

\* lines 58-81: the recursive helper; returns the list of lines
generate_positions(pos, current_blocks, pos_list, len) ==
    IF current_blocks = << >>
    THEN << LineOf(pos_list, len) >>
    ELSE place_loop(pos,
                    len - sum(current_blocks) - (Len(current_blocks) - 1),
                    current_blocks, pos_list, len)

\* lines 43-84: the list of lines for the clue bl in a line of len cells
generate_line_possibilities(bl, len) ==
    IF bl = << >>
    THEN << [c \in 1..len |-> 0] >>
    ELSE IF len - (sum(bl) + (Len(bl) - 1)) < 0
         THEN << >>
         ELSE generate_positions(0, bl, << >>, len)

SeqToSet(s) == { s[n] : n \in 1..Len(s) }

\* lines 86-89: one set of tuples per clue
generate_domains(constraints, len) ==
    [n \in 1..Len(constraints) |->
        SeqToSet(generate_line_possibilities(constraints[n], len))]

(* ---------------------- Constraint Propagator -------------------------- *)

Height == Len(row_constraints)
Width == Len(col_constraints)

\* lines 100-107: the possibilities of row i that agree with every fixed cell
row_filter(i, g, rd) ==
    { possibility \in rd[i] :
        \A j \in 1..Len(possibility) :
            g[i][j] = None \/ g[i][j] = possibility[j] }

\* lines 119-126: the possibilities of column j that agree with every fixed cell
col_filter(j, g, cd) ==
    { possibility \in cd[j] :
        \A i \in 1..Len(possibility) :
            g[i][j] = None \/ g[i][j] = possibility[i] }

\* Bind(F, v) is F(v) with v evaluated once, before F is applied
Bind(F(_), v) == CHOOSE y \in { F(x) : x \in {v} } : TRUE

RECURSIVE update_rows_keep_empty(_, _, _, _)
\* update_rows with the fault of not returning on an empty new domain
update_rows_keep_empty(i, g, rd, changed) ==
    IF i > Len(rd)
    THEN [ok |-> TRUE, domains |-> rd, changed |-> changed]
    ELSE Bind(LAMBDA new_domain :
                IF new_domain # rd[i]
                THEN update_rows_keep_empty(i + 1, g,
                                            [rd EXCEPT ![i] = new_domain], TRUE)
                ELSE update_rows_keep_empty(i + 1, g, rd, changed),
              row_filter(i, g, rd))

RECURSIVE update_rows(_, _, _, _)
\* lines 98-114: the loop over the rows from row i on; an empty new domain
\* returns at once and leaves that row's domain as it was
update_rows(i, g, rd, changed) ==
    IF i > Len(rd)
    THEN [ok |-> TRUE, domains |-> rd, changed |-> changed]
    ELSE Bind(LAMBDA new_domain :
                IF new_domain = {}
                THEN [ok |-> FALSE, domains |-> rd, changed |-> changed]
                ELSE IF new_domain # rd[i]
                     THEN update_rows(i + 1, g,
                                      [rd EXCEPT ![i] = new_domain], TRUE)
                     ELSE update_rows(i + 1, g, rd, changed),
              row_filter(i, g, rd))

RECURSIVE update_cols(_, _, _, _)
\* lines 117-132: the same loop over the columns
update_cols(j, g, cd, changed) ==
    IF j > Len(cd)
    THEN [ok |-> TRUE, domains |-> cd, changed |-> changed]
    ELSE Bind(LAMBDA new_domain :
                IF new_domain = {}
                THEN [ok |-> FALSE, domains |-> cd, changed |-> changed]
                ELSE IF new_domain # cd[j]
                     THEN update_cols(j + 1, g,
                                      [cd EXCEPT ![j] = new_domain], TRUE)
                     ELSE update_cols(j + 1, g, cd, changed),
              col_filter(j, g, cd))

\* lines 138-140 and 161-163: the values both domains allow for cell (i, j)
common_values(i, j, rd, cd) ==
    { poss[j] : poss \in rd[i] } \cap { poss[i] : poss \in cd[j] }

\* lines 135-143: every Unknown cell with exactly one common value is fixed.
\* The domains do not change inside this loop, so the cells are independent.
fix_cells(g, rd, cd) ==
    [i \in 1..Len(rd) |->
        [j \in 1..Len(cd) |->
            IF g[i][j] = None /\ Cardinality(common_values(i, j, rd, cd)) = 1
            THEN CHOOSE v \in common_values(i, j, rd, cd) : TRUE
            ELSE g[i][j]]]

RECURSIVE update_domains_resetting(_, _, _, _)
\* update_domains with the fault of clearing the grid and generating the
\* domains from the clues again when it finds a contradiction
update_domains_resetting(g, rd, cd, n) ==
    LET reset == [ok |-> FALSE,
                  grid |-> [i \in 1..Len(rd) |-> [j \in 1..Len(cd) |-> None]],
                  rows |-> generate_domains(row_constraints, Len(cd)),
                  cols |-> generate_domains(col_constraints, Len(rd)),
                  passes |-> n + 1]
    IN
    Bind(LAMBDA r :
        IF ~r.ok
        THEN reset
        ELSE Bind(LAMBDA c :
            IF ~c.ok
            THEN reset
            ELSE Bind(LAMBDA g2 :
                IF c.changed \/ g2 # g
                THEN update_domains_resetting(g2, r.domains, c.domains, n + 1)
                ELSE [ok |-> TRUE, grid |-> g2, rows |-> r.domains,
                      cols |-> c.domains, passes |-> n + 1],
              fix_cells(g, r.domains, c.domains)),
          update_cols(1, g, cd, r.changed)),
      update_rows(1, g, rd, FALSE))

\* update_domains with the fault of making one pass only
update_domains_single_pass(g, rd, cd, n) ==
    Bind(LAMBDA r :
        IF ~r.ok
        THEN [ok |-> FALSE, grid |-> g, rows |-> r.domains, cols |-> cd,
              passes |-> n + 1]
        ELSE Bind(LAMBDA c :
            IF ~c.ok
            THEN [ok |-> FALSE, grid |-> g, rows |-> r.domains,
                  cols |-> c.domains, passes |-> n + 1]
            ELSE [ok |-> TRUE, grid |-> fix_cells(g, r.domains, c.domains),
                  rows |-> r.domains, cols |-> c.domains, passes |-> n + 1],
          update_cols(1, g, cd, r.changed)),
      update_rows(1, g, rd, FALSE))

RECURSIVE update_domains(_, _, _, _)
\* lines 91-145: passes of row filter, column filter and forced cells until a
\* pass changes nothing (ok) or a domain becomes empty (not ok); n counts the
\* passes made before this one
update_domains(g, rd, cd, n) ==
    Bind(LAMBDA r :
        IF ~r.ok
        THEN [ok |-> FALSE, grid |-> g, rows |-> r.domains, cols |-> cd,
              passes |-> n + 1]
        ELSE Bind(LAMBDA c :
            IF ~c.ok
            THEN [ok |-> FALSE, grid |-> g, rows |-> r.domains,
                  cols |-> c.domains, passes |-> n + 1]
            ELSE Bind(LAMBDA g2 :
                IF c.changed \/ g2 # g
                THEN update_domains(g2, r.domains, c.domains, n + 1)
                ELSE [ok |-> TRUE, grid |-> g2, rows |-> r.domains,
                      cols |-> c.domains, passes |-> n + 1],
              fix_cells(g, r.domains, c.domains)),
          update_cols(1, g, cd, r.changed)),
      update_rows(1, g, rd, FALSE))

(* -------------------------- Search Controller -------------------------- *)

Unknowns(g) ==
    { p \in (1..Len(g)) \X (1..Width) : g[p[1]][p[2]] = None }

\* position of a cell in the row-major order of the loops of lines 158-159
RowMajor(p) == (p[1] - 1) * Width + p[2]

options(p, rd, cd) == Cardinality(common_values(p[1], p[2], rd, cd))

\* lines 154-167: the first Unknown cell, in row-major order, with the fewest
\* common values (the comparison of line 164 is strict)
best_pos(g, rd, cd) ==
    CHOOSE p \in Unknowns(g) :
        \A q \in Unknowns(g) :
            \/ options(p, rd, cd) < options(q, rd, cd)
            \/ /\ options(p, rd, cd) = options(q, rd, cd)
               /\ RowMajor(p) <= RowMajor(q)

RECURSIVE iteration_order(_)
\* line 175 iterates a set of the integers 0 and 1: such a set is stored by
\* hash, the hash of a small integer is the integer, so 0 comes before 1
iteration_order(S) ==
    IF S = {} THEN << >>
    ELSE LET m == CHOOSE x \in S : \A y \in S : x <= y
         IN  <<m>> \o iteration_order(S \ {m})

Top == stack[Len(stack)]

Pop == SubSeq(stack, 1, Len(stack) - 1)

NewFrame == [pc |-> "enter", pos |-> <<0, 0>>, values |-> << >>, k |-> 0,
             before |-> << >>]

Snapshot == [grid |-> grid, rows |-> row_domains, cols |-> col_domains]

\* lines 150-171 of one call of solve: propagate, then pick the branch cell.
\* last records the propagation call: the state before it and its outcome.
SolveEnter ==
    /\ stack # << >>
    /\ Top.pc = "enter"
    /\ \E u \in {update_domains(grid, row_domains, col_domains, 0)} :
       /\ grid' = u.grid
       /\ row_domains' = u.rows
       /\ col_domains' = u.cols
       /\ last' = [called |-> TRUE, before |-> Snapshot,
                   after |-> [grid |-> u.grid, rows |-> u.rows,
                              cols |-> u.cols],
                   ok |-> u.ok, passes |-> u.passes, depth |-> Len(stack)]
       /\ IF ~u.ok
          THEN /\ stack' = Pop
               /\ ret' = [value |-> FALSE, line |-> 151]
          ELSE IF Unknowns(u.grid) = {}
               THEN /\ stack' = Pop
                    /\ ret' = [value |-> TRUE, line |-> 171]
               ELSE \E p \in {best_pos(u.grid, u.rows, u.cols)} :
                    /\ stack' = [stack EXCEPT ![Len(stack)] =
                          [pc |-> "loop", pos |-> p,
                           values |-> iteration_order(
                               common_values(p[1], p[2], u.rows, u.cols)),
                           k |-> 0, before |-> << >>]]
                    /\ ret' = NoRet
    /\ UNCHANGED <<row_constraints, col_constraints, gen_vars>>

\* TryValue with the fault of not moving on to the next candidate
TryValue_same_candidate ==
    /\ stack # << >>
    /\ Top.pc = "loop"
    /\ Top.k < Len(Top.values)
    /\ grid' = [grid EXCEPT ![Top.pos[1]][Top.pos[2]] = Top.values[Top.k + 1]]
    /\ stack' = Append([stack EXCEPT ![Len(stack)] =
                           [Top EXCEPT !.pc = "wait", !.before = Snapshot]],
                       NewFrame)
    /\ UNCHANGED <<row_constraints, col_constraints, row_domains, col_domains,
                   ret, last, gen_vars>>

\* lines 175-177: write the next candidate value and call solve
TryValue ==
    /\ stack # << >>
    /\ Top.pc = "loop"
    /\ Top.k < Len(Top.values)
    /\ grid' = [grid EXCEPT ![Top.pos[1]][Top.pos[2]] = Top.values[Top.k + 1]]
    /\ stack' = Append([stack EXCEPT ![Len(stack)] =
                           [Top EXCEPT !.pc = "wait", !.k = Top.k + 1,
                                       !.before = Snapshot]],
                       NewFrame)
    /\ UNCHANGED <<row_constraints, col_constraints, row_domains, col_domains,
                   ret, last, gen_vars>>

\* line 178: the recursive call returned true
ChildTrue ==
    /\ stack # << >>
    /\ Top.pc = "wait"
    /\ ret.line # 0
    /\ ret.value
    /\ stack' = Pop
    /\ ret' = [value |-> TRUE, line |-> 178]
    /\ UNCHANGED <<row_constraints, col_constraints, grid, row_domains,
                   col_domains, last, gen_vars>>

\* ChildFalse restoring the grid and the domains saved before the candidate
\* was written, which the source does not do
ChildFalse_restoring ==
    /\ stack # << >>
    /\ Top.pc = "wait"
    /\ ret.line # 0
    /\ ~ret.value
    /\ grid' = Top.before.grid
    /\ row_domains' = Top.before.rows
    /\ col_domains' = Top.before.cols
    /\ stack' = [stack EXCEPT ![Len(stack)].pc = "loop"]
    /\ ret' = NoRet
    /\ UNCHANGED <<row_constraints, col_constraints, last, gen_vars>>

\* line 179: the recursive call returned false; only the cell is reset
ChildFalse ==
    /\ stack # << >>
    /\ Top.pc = "wait"
    /\ ret.line # 0
    /\ ~ret.value
    /\ grid' = [grid EXCEPT ![Top.pos[1]][Top.pos[2]] = None]
    /\ stack' = [stack EXCEPT ![Len(stack)].pc = "loop"]
    /\ ret' = NoRet
    /\ UNCHANGED <<row_constraints, col_constraints, row_domains, col_domains,
                   last, gen_vars>>

\* line 181: every candidate value was tried
Exhausted ==
    /\ stack # << >>
    /\ Top.pc = "loop"
    /\ Top.k = Len(Top.values)
    /\ stack' = Pop
    /\ ret' = [value |-> FALSE, line |-> 181]
    /\ UNCHANGED <<row_constraints, col_constraints, grid, row_domains,
                   col_domains, last, gen_vars>>

(* ------------------------------ puzzles -------------------------------- *)

\* lines 13-19: the solver as constructed for the clues rows, cols, and the
\* top-level call of solve about to run
Constructed(rows, cols) ==
    /\ row_constraints = rows
    /\ col_constraints = cols
    /\ grid = [i \in 1..Len(rows) |-> [j \in 1..Len(cols) |-> None]]
    /\ row_domains = generate_domains(rows, Len(cols))
    /\ col_domains = generate_domains(cols, Len(rows))
    /\ stack = <<NewFrame>>
    /\ ret = NoRet
    /\ last = NoLast

RECURSIVE ClueListsOf(_, _)
\* the lists of exactly n clues whose blocks sum to at most t
ClueListsOf(n, t) ==
    IF n = 0 THEN { << >> }
    ELSE UNION { { <<c>> \o rest : rest \in ClueListsOf(n - 1, t - sum(c)) } :
                 c \in CluesUpTo(t) }

\* the lists of 1..n clues whose blocks sum to at most MaxFilled
ClueLists(n) == UNION { ClueListsOf(m, MaxFilled) : m \in 1..n }

GenIdle ==
    /\ blocks = << >>
    /\ length = 0
    /\ lines = << >>
    /\ gen_pc = "idle"

Init ==
    /\ \E rows \in ClueLists(MaxH) : \E cols \in ClueLists(MaxW) :
          Constructed(rows, cols)
    /\ GenIdle

Next == SolveEnter \/ TryValue \/ ChildTrue \/ ChildFalse \/ Exhausted

Spec == Init /\ [][Next]_vars

\* solve runs to completion: the program is single-threaded and nothing
\* suspends it, so a step that can be taken is taken
FairSpec == Spec /\ WF_vars(Next)

HardClues == CluesUpTo(HardClueSum) \ { << >> }

InitHard ==
    /\ \E rows \in [1..HardH -> HardClues] : \E cols \in [1..HardW -> HardClues] :
          Constructed(rows, cols)
    /\ GenIdle

SpecHard == InitHard /\ [][Next]_vars

(* ------------------- the line generator on its own --------------------- *)

InitGen ==
    /\ blocks \in CluesUpTo(MaxGenSum)
    /\ length \in 0..MaxLength
    /\ lines = << >>
    /\ gen_pc = "call"
    /\ row_constraints = << >>
    /\ col_constraints = << >>
    /\ grid = << >>
    /\ row_domains = << >>
    /\ col_domains = << >>
    /\ stack = << >>
    /\ ret = NoRet
    /\ last = NoLast

\* one call generate_line_possibilities(blocks, length); lines is its result
Generate ==
    /\ gen_pc = "call"
    /\ lines' = generate_line_possibilities(blocks, length)
    /\ gen_pc' = "returned"
    /\ UNCHANGED <<blocks, length, solver_vars>>

NextGen == Generate

SpecGen == InitGen /\ [][NextGen]_vars

(* ----------------------- reference definitions ------------------------- *)

RECURSIVE RunsFrom(_, _, _)
\* the lengths of the maximal runs of Filled cells of line from position c
\* on, left to right, with count Filled cells of an open run before c
RunsFrom(line, c, count) ==
    IF c > Len(line)
    THEN IF count > 0 THEN <<count>> ELSE << >>
    ELSE IF line[c] = 1
         THEN RunsFrom(line, c + 1, count + 1)
         ELSE (IF count > 0 THEN <<count>> ELSE << >>) \o RunsFrom(line, c + 1, 0)

RunLengths(line) == RunsFrom(line, 1, 0)

\* every 0/1 line of len cells whose runs of Filled cells are exactly bl
RefLines(bl, len) == { l \in [1..len -> {0, 1}] : RunLengths(l) = bl }

Column(g, j) == [i \in 1..Len(g) |-> g[i][j]]

\* cells a clue needs at least: its blocks and one gap between neighbours
Span(bl) == sum(bl) + Len(bl) - 1

RECURSIVE GridsOf(_)
\* every grid whose rows satisfy the given row clues, in order
GridsOf(rows) ==
    IF rows = << >> THEN { << >> }
    ELSE { <<l>> \o g : l \in RefLines(Head(rows), Width), g \in GridsOf(Tail(rows)) }

SolutionExists ==
    \E g \in GridsOf(row_constraints) :
        \A j \in 1..Width : RunLengths(Column(g, j)) = col_constraints[j]

\* the top-level call of solve has returned; ret is its result
Done == stack = << >> /\ ret.line # 0

Cells == (1..Height) \X (1..Width)

(* ------------------------------- claims -------------------------------- *)

\* C1: whenever the top-level solve returns true the grid has no Unknown
\* cell, and run-length encoding each row and each column of the grid gives
\* exactly that line's clue.
C1_Soundness ==
    (Done /\ ret.value) =>
        /\ Unknowns(grid) = {}
        /\ \A i \in 1..Height : RunLengths(grid[i]) = row_constraints[i]
        /\ \A j \in 1..Width : RunLengths(Column(grid, j)) = col_constraints[j]

\* a puzzle solved through a branch, with Filled cells in the grid
C1_Witness ==
    /\ Done /\ ret.value /\ ret.line = 178
    /\ \E p \in Cells : grid[p[1]][p[2]] = 1

\* C2: the top-level solve returns false only if no grid satisfies every
\* row and column clue.
C2_Completeness ==
    (Done /\ ~ret.value) => ~SolutionExists

\* C3: when a candidate's recursive solve returned false and the cell was
\* reset, the grid and every domain equal what they were just before that
\* candidate was written.
C3_Restoration ==
    (stack # << >> /\ Top.pc = "loop" /\ Top.k >= 1) => Snapshot = Top.before

\* C4: the list generate_line_possibilities returns holds exactly the lines
\* of the given length whose runs of Filled cells are the blocks, each once;
\* it is the single all-Empty line for no blocks and empty when the blocks
\* do not fit.
C4_Generator ==
    gen_pc = "returned" =>
        /\ SeqToSet(lines) = RefLines(blocks, length)
        /\ Cardinality(SeqToSet(lines)) = Len(lines)
        /\ blocks = << >> => lines = << [c \in 1..length |-> 0] >>
        /\ Span(blocks) > length => lines = << >>

\* several blocks with room to move: at least three lines returned
C4_Witness ==
    gen_pc = "returned" /\ Len(blocks) >= 2 /\ Len(lines) >= 3

Impossible ==
    \/ \E i \in 1..Height : Span(row_constraints[i]) > Width
    \/ \E j \in 1..Width : Span(col_constraints[j]) > Height

\* C5: in a puzzle with a clue that does not fit its line, that line's
\* domain is empty, no grid cell is ever fixed, and the top-level solve
\* returns false, from its propagation call.
C5_ImpossibleClue ==
    Impossible =>
        /\ \A i \in 1..Height :
              Span(row_constraints[i]) > Width => row_domains[i] = {}
        /\ \A j \in 1..Width :
              Span(col_constraints[j]) > Height => col_domains[j] = {}
        /\ Unknowns(grid) = Cells
        /\ Done => (~ret.value /\ ret.line = 151)

\* solve has returned on a puzzle with an impossible clue and another line
\* whose clue fills it completely
C5_Witness ==
    /\ Impossible /\ Done
    /\ \E i \in 1..Height : Span(row_constraints[i]) = Width

\* C6: across a call of _update_domains, whatever it returns, every domain
\* after the call is a subset of the domain before it and every cell fixed
\* before the call keeps its value.
C6_Monotonic ==
    last.called =>
        /\ \A i \in 1..Height : last.after.rows[i] \subseteq last.before.rows[i]
        /\ \A j \in 1..Width : last.after.cols[j] \subseteq last.before.cols[j]
        /\ \A p \in Cells :
              last.before.grid[p[1]][p[2]] # None =>
                 last.after.grid[p[1]][p[2]] = last.before.grid[p[1]][p[2]]

\* a call inside a branch that returned false after it had fixed a cell and
\* narrowed a row domain and a column domain, with cells fixed before it
C6_Witness ==
    /\ last.called /\ ~last.ok /\ last.depth >= 2
    /\ last.after.grid # last.before.grid
    /\ last.after.rows # last.before.rows
    /\ last.after.cols # last.before.cols
    /\ \E p \in Cells : last.before.grid[p[1]][p[2]] # None

\* C7: when _update_domains returned true, calling it again at once returns
\* true and changes neither the grid nor any domain.
C7_Idempotent ==
    (last.called /\ last.ok) =>
        LET again == update_domains(last.after.grid, last.after.rows,
                                    last.after.cols, 0)
        IN  /\ again.ok
            /\ again.grid = last.after.grid
            /\ again.rows = last.after.rows
            /\ again.cols = last.after.cols

\* a call that needed three passes or more and left Unknown cells
C7_Witness ==
    /\ last.called /\ last.ok /\ last.passes >= 3
    /\ Unknowns(last.after.grid) # {}

\* C8: _update_domains never returns true while some Unknown cell has no
\* value common to its row domain and its column domain.
C8_EmptyIntersection ==
    (last.called /\ last.ok) =>
        \A p \in Unknowns(last.after.grid) :
            common_values(p[1], p[2], last.after.rows, last.after.cols) # {}

\* assignments removed from the domains and cells fixed by the last call
Progress ==
    LET I == 1..Height
        J == 1..Width
        removed_rows == { <<i, a>> \in I \X UNION { last.before.rows[i] : i \in I } :
                            a \in last.before.rows[i] \ last.after.rows[i] }
        removed_cols == { <<j, a>> \in J \X UNION { last.before.cols[j] : j \in J } :
                            a \in last.before.cols[j] \ last.after.cols[j] }
        fixed == { p \in Cells : /\ last.before.grid[p[1]][p[2]] = None
                                 /\ last.after.grid[p[1]][p[2]] # None }
    IN  Cardinality(removed_rows) + Cardinality(removed_cols) + Cardinality(fixed)

\* C9: the top-level solve eventually returns; a propagation call makes at
\* most one pass more than the assignments it removed and cells it fixed;
\* and at most one call of solve per grid cell, plus one, is open at a time.
C9_Termination ==
    /\ <>Done
    /\ [](last.called => last.passes <= Progress + 1)
    /\ [](Len(stack) <= Height * Width + 1)

\* the top-level solve has returned false after every candidate of its
\* branch cell failed in a nested call
C9_Witness ==
    /\ Done /\ ret.line = 181
    /\ last.called /\ last.depth >= 2

\* C10: when a candidate after the first was tried, its recursive solve
\* returned false from the propagation call at its entry; after a failed
\* candidate the row domain of the branch cell holds only assignments with
\* the first candidate value at the cell; and solve returns true only while
\* every open branching node is on its first candidate.
C10_FirstCandidateOnly ==
    /\ (stack # << >> /\ Top.pc = "wait" /\ Top.k >= 2 /\ ret.line # 0) =>
          /\ ~ret.value
          /\ ret.line = 151
          /\ last.depth = Len(stack) + 1
    /\ (stack # << >> /\ Top.pc = "loop" /\ Top.k >= 1) =>
          \A a \in row_domains[Top.pos[1]] : a[Top.pos[2]] = Top.values[1]
    /\ (ret.line # 0 /\ ret.value) =>
          \A n \in 1..Len(stack) : stack[n].k = 1

\* the second candidate of a branching node was tried and has failed
C10_Witness ==
    /\ stack # << >> /\ Top.pc = "wait" /\ Top.k = 2
    /\ ret.line = 151

====
